---- MODULE Spec2Model ----
(***************************************************************************)
(* Grover search of qs.py: build_grover_oracle, build_diffusion_operator,  *)
(* build_grover_circuit and quantum_search, with the gates the circuit is  *)
(* made of executed on an exact state vector.                              *)
(*                                                                         *)
(* An amplitude is kept exactly as an integer numerator over a power of    *)
(* sqrt(2): the amplitude of basis state i is amp[i] / sqrt(2)^k.  The     *)
(* probability of i is amp[i]^2 / 2^k.                                     *)
(***************************************************************************)
EXTENDS Integers, Sequences, FiniteSets, TLC

\* ---- bounds of the model ----
MinN == 1
\* n ranges over -MinN .. MaxN
MaxN == 4
MinTarget == 3
\* target_index ranges over -MinTarget .. MaxTarget
MaxTarget == 31
MaxIterations == 2
\* the shots of one run (shots=1024 in quantum_search, scaled down)
Shots == 1
\* the aggregation and diffusion specifications draw their inputs from
AggBits == 2
AggLen == 2
MaxCount == 2
DiffMaxN == 2
MaxAmp == 1

\* ---- program constants ----
\* iterations=1 in the signatures of build_grover_circuit and quantum_search
DefaultIterations == 1

VARIABLES
    pc,            \* position in quantum_search / build_grover_circuit
    n,             \* argument n
    target_index,  \* argument target_index
    supplied,      \* whether the caller passed iterations
    iterations,    \* the value of the parameter iterations
    target_bin,    \* local target_bin of build_grover_circuit
    oracle,        \* gates of the circuit build_grover_oracle returned
    diffusion,     \* gates of the circuit build_diffusion_operator returned
    qc,            \* the instructions of the circuit qc, in order
    ip,            \* index in qc of the next instruction the backend executes
    state,         \* the backend's state vector [amp, k]
    applied,       \* names of the instructions executed so far
    counts,        \* result.get_counts(): sequence of <<bitstring, count>>
    result,        \* the value quantum_search returns (NoResult before)
    err            \* the exception that ended the call ("" if none)

vars == <<pc, n, target_index, supplied, iterations, target_bin, oracle,
          diffusion, qc, ip, state, applied, counts, result, err>>

NoResult == -1

NoState == [amp |-> [i \in {} |-> 0], k |-> 0]

\* ---------------------------------------------------------------------
\* format(target_index, f'0{n}b')
\* ---------------------------------------------------------------------
Digit(b) == IF b = 0 THEN "0" ELSE "1"

RECURSIVE BinDigits(_)
BinDigits(v) ==
    IF v < 2 THEN <<Digit(v)>> ELSE BinDigits(v \div 2) \o <<Digit(v % 2)>>

RECURSIVE ZeroPad(_, _)
ZeroPad(s, w) == IF Len(s) >= w THEN s ELSE ZeroPad(<<"0">> \o s, w)

\* format(target_index, 'b'): the padding to n digits left out
FormatUnpadded(v, w) == IF v >= 0 THEN BinDigits(v) ELSE <<"-">> \o BinDigits(-v)

\* sign-aware zero padding: the sign counts in the width
Format(v, w) ==
    IF v >= 0 THEN ZeroPad(BinDigits(v), w)
    ELSE <<"-">> \o ZeroPad(BinDigits(-v), w - 1)

\* ---------------------------------------------------------------------
\* gates: <<name, controls, qubit>>
\* ---------------------------------------------------------------------
XGate(q) == <<"x", {}, q>>

HGate(q) == <<"h", {}, q>>

MCXGate(ctl, q) == <<"mcx", ctl, q>>

\* qc.x(i) for every position i of target holding '0'
RECURSIVE XLayer(_, _)
XLayer(target, i) ==
    IF i > Len(target) THEN <<>>
    ELSE (IF target[i] = "0" THEN <<XGate(i - 1)>> ELSE <<>>) \o XLayer(target, i + 1)

\* qc.h(n - 1); qc.mcx(list(range(n - 1)), n - 1); qc.h(n - 1)
MultiControlledZ(w) == <<HGate(w - 1), MCXGate(0 .. (w - 2), w - 1), HGate(w - 1)>>

\* qc.h(range(n)) / qc.x(range(n))
RECURSIVE Layer(_, _, _)
Layer(name, q, w) ==
    IF q >= w THEN <<>> ELSE <<(<<name, {}, q>>)>> \o Layer(name, q + 1, w)

\* the oracle with the second qc.h(n - 1) left out
build_grover_oracle_one_h(target, w) ==
    XLayer(target, 1) \o <<HGate(w - 1), MCXGate(0 .. (w - 2), w - 1)>> \o XLayer(target, 1)

build_grover_oracle(target, w) ==
    XLayer(target, 1) \o MultiControlledZ(w) \o XLayer(target, 1)

\* the diffusion with the second qc.x(range(n)) left out
build_diffusion_operator_one_x(w) ==
    Layer("h", 0, w) \o Layer("x", 0, w) \o MultiControlledZ(w) \o Layer("h", 0, w)

build_diffusion_operator(w) ==
    Layer("h", 0, w) \o Layer("x", 0, w) \o MultiControlledZ(w)
        \o Layer("x", 0, w) \o Layer("h", 0, w)

\* a gate on a qubit the circuit does not have raises CircuitError
QubitOK(q, w) == q >= -w /\ q < w

GatesOK(gates, w) == \A j \in 1 .. Len(gates) : QubitOK(gates[j][3], w)

\* mcx with an empty control list (n = 1): the library either rejects it
\* (no controlled gate with zero controls) or applies a plain X
McxAccepted(w) == IF w = 1 THEN {TRUE, FALSE} ELSE {TRUE}

\* ---------------------------------------------------------------------
\* the circuit
\* ---------------------------------------------------------------------
Instr(name, gates) == [name |-> name, gates |-> gates]

\* the loop body with the two appends exchanged
LoopBodySwapped(o, d) == <<Instr("Diffusion", d), Instr("Oracle", o)>>

LoopBody(o, d) == <<Instr("Oracle", o), Instr("Diffusion", d)>>

RECURSIVE Repeat(_, _)
Repeat(body, times) == IF times <= 0 THEN <<>> ELSE body \o Repeat(body, times - 1)

\* ---------------------------------------------------------------------
\* the backend: gates on the state vector
\* ---------------------------------------------------------------------
Dim(w) == 2 ^ w

Bit(i, q) == (i \div (2 ^ q)) % 2

Flip(i, q) == IF Bit(i, q) = 0 THEN i + 2 ^ q ELSE i - 2 ^ q

\* Python indexing of the qubit list: -1 is the last qubit
Qubit(q, w) == IF q < 0 THEN w + q ELSE q

\* the canonical form of amp / sqrt(2)^k: no common factor 2 left
RECURSIVE Reduce(_)
Reduce(s) ==
    IF s.k >= 2 /\ \A i \in DOMAIN s.amp : s.amp[i] % 2 = 0
    THEN Reduce([amp |-> [i \in DOMAIN s.amp |-> s.amp[i] \div 2], k |-> s.k - 2])
    ELSE s

ApplyX(s, q) == [amp |-> [i \in DOMAIN s.amp |-> s.amp[Flip(i, q)]], k |-> s.k]

\* a Hadamard without the sign of its |1> row
ApplyHUnsigned(s, q) ==
    [amp |-> [i \in DOMAIN s.amp |-> s.amp[i] + s.amp[Flip(i, q)]], k |-> s.k + 1]

ApplyH(s, q) ==
    [amp |-> [i \in DOMAIN s.amp |->
                 IF Bit(i, q) = 0 THEN s.amp[i] + s.amp[Flip(i, q)]
                 ELSE s.amp[Flip(i, q)] - s.amp[i]],
     k |-> s.k + 1]

ApplyMCX(s, ctl, q) ==
    [amp |-> [i \in DOMAIN s.amp |->
                 IF \A c \in ctl : Bit(i, c) = 1 THEN s.amp[Flip(i, q)] ELSE s.amp[i]],
     k |-> s.k]

ApplyGate(s, g, w) ==
    Reduce(CASE g[1] = "x" -> ApplyX(s, Qubit(g[3], w))
             [] g[1] = "h" -> ApplyH(s, Qubit(g[3], w))
             [] g[1] = "mcx" -> ApplyMCX(s, g[2], Qubit(g[3], w)))

RECURSIVE ApplyGates(_, _, _, _)
ApplyGates(s, gates, j, w) ==
    IF j > Len(gates) THEN s ELSE ApplyGates(ApplyGate(s, gates[j], w), gates, j + 1, w)

\* the backend starts every run in |0...0>
ZeroState(w) == [amp |-> [i \in 0 .. (Dim(w) - 1) |-> IF i = 0 THEN 1 ELSE 0], k |-> 0]

\* ---------------------------------------------------------------------
\* measurement and the returned index
\* ---------------------------------------------------------------------
\* the key of outcome i in the counts: qubit w-1 first, qubit 0 last
RECURSIVE Bitstring(_, _)
Bitstring(i, w) ==
    IF w <= 0 THEN <<>> ELSE Bitstring(i \div 2, w - 1) \o <<Digit(i % 2)>>

\* int(bitstring, 2)
RECURSIVE ParseBin(_)
ParseBin(s) ==
    IF Len(s) = 0 THEN 0
    ELSE 2 * ParseBin(SubSeq(s, 1, Len(s) - 1)) + (IF s[Len(s)] = "1" THEN 1 ELSE 0)

\* the outcomes a shot can give: those of nonzero probability
Possible(s) == {i \in DOMAIN s.amp : s.amp[i] # 0}

\* the counts mappings over a set of outcomes, in every iteration order
RECURSIVE CountsOver(_, _, _, _)
CountsOver(outcomes, w, len, most) ==
    IF len = 0 THEN {<<>>}
    ELSE LET shorter == CountsOver(outcomes, w, len - 1, most)
         IN  shorter \cup
             {c \o <<(<<Bitstring(i, w), m>>)>> :
                 c \in {d \in shorter : Len(d) = len - 1},
                 i \in outcomes, m \in 1 .. most}

DistinctKeys(c) == \A a, b \in 1 .. Len(c) : a # b => c[a][1] # c[b][1]

CountsSet(outcomes, w, len, most) ==
    {c \in CountsOver(outcomes, w, len, most) : Len(c) >= 1 /\ DistinctKeys(c)}

RECURSIVE TotalCount(_)
TotalCount(c) == IF Len(c) = 0 THEN 0 ELSE Head(c)[2] + TotalCount(Tail(c))

\* the counts a run of `shots` shots can return: every shot gives one
\* possible outcome, the keys come in any order
ShotCounts(outcomes, w, shots) ==
    {c \in CountsSet(outcomes, w, shots, shots) : TotalCount(c) = shots}

\* max(counts, key=counts.get): the first key, in iteration order, of the
\* highest count
RECURSIVE MaxKey(_, _, _)
MaxKey(c, j, best) ==
    IF j > Len(c) THEN c[best][1]
    ELSE MaxKey(c, j + 1, IF c[j][2] > c[best][2] THEN j ELSE best)

Winner(c) == ParseBin(MaxKey(c, 2, 1))

\* ---------------------------------------------------------------------
\* quantum_search(target_index, n, iterations)
\* ---------------------------------------------------------------------
Init ==
    /\ pc = "start"
    /\ n \in (-MinN) .. MaxN
    /\ target_index \in (-MinTarget) .. MaxTarget
    /\ supplied \in BOOLEAN
    /\ iterations \in (IF supplied THEN 0 .. MaxIterations ELSE {DefaultIterations})
    /\ target_bin = <<>>
    /\ oracle = <<>>
    /\ diffusion = <<>>
    /\ qc = <<>>
    /\ ip = 0
    /\ state = NoState
    /\ applied = <<>>
    /\ counts = <<>>
    /\ result = NoResult
    /\ err = ""

Raise(e) ==
    /\ pc' = "failed"
    /\ err' = e

\* target_bin = format(target_index, f'0{n}b'); '0-1b' is no format
FormatTarget ==
    /\ pc = "start"
    /\ IF n < 0
       THEN /\ Raise("ValueError")
            /\ UNCHANGED target_bin
       ELSE /\ target_bin' = Format(target_index, n)
            /\ pc' = "formatted"
            /\ UNCHANGED err
    /\ UNCHANGED <<n, target_index, supplied, iterations, oracle, diffusion, qc,
                   ip, state, applied, counts, result>>

\* qc = QuantumCircuit(n); qc.h(range(n))
NewCircuit ==
    /\ pc = "formatted"
    /\ qc' = <<Instr("H", Layer("h", 0, n))>>
    /\ pc' = "circuit"
    /\ UNCHANGED <<n, target_index, supplied, iterations, target_bin, oracle,
                   diffusion, ip, state, applied, counts, result, err>>

\* oracle = build_grover_oracle(target_bin, n)
BuildOracle ==
    /\ pc = "circuit"
    /\ \E accepted \in McxAccepted(n) :
          IF GatesOK(build_grover_oracle(target_bin, n), n) /\ accepted
          THEN /\ oracle' = build_grover_oracle(target_bin, n)
               /\ pc' = "oracle"
               /\ UNCHANGED err
          ELSE /\ Raise("CircuitError")
               /\ UNCHANGED oracle
    /\ UNCHANGED <<n, target_index, supplied, iterations, target_bin, diffusion,
                   qc, ip, state, applied, counts, result>>

\* diffusion = build_diffusion_operator(n)
BuildDiffusion ==
    /\ pc = "oracle"
    /\ IF GatesOK(build_diffusion_operator(n), n)
       THEN /\ diffusion' = build_diffusion_operator(n)
            /\ pc' = "diffusion"
            /\ UNCHANGED err
       ELSE /\ Raise("CircuitError")
            /\ UNCHANGED diffusion
    /\ UNCHANGED <<n, target_index, supplied, iterations, target_bin, oracle,
                   qc, ip, state, applied, counts, result>>

\* for _ in range(iterations): append oracle, append diffusion; measure_all
AppendIterations ==
    /\ pc = "diffusion"
    /\ qc' = qc \o Repeat(LoopBody(oracle, diffusion), iterations)
                \o <<Instr("measure", <<>>)>>
    /\ pc' = "built"
    /\ UNCHANGED <<n, target_index, supplied, iterations, target_bin, oracle,
                   diffusion, ip, state, applied, counts, result, err>>

\* transpile(qc, backend); backend.run(transpiled_circuit, shots=1024)
RunCircuit ==
    /\ pc = "built"
    /\ state' = ZeroState(n)
    /\ ip' = 1
    /\ pc' = "running"
    /\ UNCHANGED <<n, target_index, supplied, iterations, target_bin, oracle,
                   diffusion, qc, applied, counts, result, err>>

\* the backend executes the next instruction of the circuit
ExecInstr ==
    /\ pc = "running"
    /\ ip <= Len(qc)
    /\ qc[ip].name # "measure"
    /\ state' = ApplyGates(state, qc[ip].gates, 1, n)
    /\ applied' = Append(applied, qc[ip].name)
    /\ ip' = ip + 1
    /\ UNCHANGED <<pc, n, target_index, supplied, iterations, target_bin, oracle,
                   diffusion, qc, counts, result, err>>

\* the measurement of all qubits; counts = job.result().get_counts()
Measure ==
    /\ pc = "running"
    /\ ip <= Len(qc)
    /\ qc[ip].name = "measure"
    /\ counts' \in ShotCounts(Possible(state), n, Shots)
    /\ applied' = Append(applied, qc[ip].name)
    /\ ip' = ip + 1
    /\ pc' = "measured"
    /\ UNCHANGED <<n, target_index, supplied, iterations, target_bin, oracle,
                   diffusion, qc, state, result, err>>

\* result_bitstr = max(counts, key=counts.get); return int(result_bitstr, 2)
Aggregate ==
    /\ pc = "measured"
    /\ result' = Winner(counts)
    /\ pc' = "done"
    /\ UNCHANGED <<n, target_index, supplied, iterations, target_bin, oracle,
                   diffusion, qc, ip, state, applied, counts, err>>

Next ==
    \/ FormatTarget
    \/ NewCircuit
    \/ BuildOracle
    \/ BuildDiffusion
    \/ AppendIterations
    \/ RunCircuit
    \/ ExecInstr
    \/ Measure
    \/ Aggregate

Spec == Init /\ [][Next]_vars

\* ---------------------------------------------------------------------
\* the aggregation alone: max(counts, key=counts.get) and int(_, 2) on
\* every counts mapping of at most AggLen keys of AggBits bits
\* ---------------------------------------------------------------------
InitAgg ==
    /\ pc = "measured"
    /\ n \in 1 .. AggBits
    /\ counts \in CountsSet(0 .. (Dim(n) - 1), n, AggLen, MaxCount)
    /\ target_index = 0
    /\ supplied = TRUE
    /\ iterations = 0
    /\ target_bin = <<>>
    /\ oracle = <<>>
    /\ diffusion = <<>>
    /\ qc = <<>>
    /\ ip = 0
    /\ state = NoState
    /\ applied = <<>>
    /\ result = NoResult
    /\ err = ""

NextAgg == Aggregate

SpecAgg == InitAgg /\ [][NextAgg]_vars

\* ---------------------------------------------------------------------
\* the diffusion circuit alone, executed on every integer amplitude
\* vector of n <= DiffMaxN qubits with entries in -1 .. MaxAmp
\* ---------------------------------------------------------------------
InitDiff ==
    /\ pc = "running"
    /\ n \in 1 .. DiffMaxN
    /\ diffusion = build_diffusion_operator(n)
    /\ qc = <<Instr("Diffusion", diffusion)>>
    /\ ip = 1
    /\ state \in [amp : [0 .. (Dim(n) - 1) -> (-1) .. MaxAmp], k : {0}]
    /\ target_index = 0
    /\ supplied = TRUE
    /\ iterations = 0
    /\ target_bin = <<>>
    /\ oracle = <<>>
    /\ applied = <<>>
    /\ counts = <<>>
    /\ result = NoResult
    /\ err = ""

NextDiff == ExecInstr

SpecDiff == InitDiff /\ [][NextDiff]_vars

\* ---------------------------------------------------------------------
\* quantities the properties are stated in
\* ---------------------------------------------------------------------
RECURSIVE SumTo(_, _)
SumTo(f, i) == IF i < 0 THEN 0 ELSE f[i] + SumTo(f, i - 1)

Sum(f) == SumTo(f, Cardinality(DOMAIN f) - 1)

Squares(s) == [i \in DOMAIN s.amp |-> s.amp[i] * s.amp[i]]

\* probability of i  =  Sq(i) / 2^k
Sq(i) == state.amp[i] * state.amp[i]

Scale == 2 ^ state.k

InRange == n >= 1 /\ target_index >= 0 /\ target_index < Dim(n)

FinalState == pc \in {"measured", "done"}

RECURSIVE ReverseBits(_, _)
ReverseBits(t, w) ==
    IF w <= 0 THEN 0 ELSE (t % 2) * 2 ^ (w - 1) + ReverseBits(t \div 2, w - 1)

RECURSIVE CountName(_, _)
CountName(seq, name) ==
    IF Len(seq) = 0 THEN 0
    ELSE (IF Head(seq) = name THEN 1 ELSE 0) + CountName(Tail(seq), name)

IsPrefix(a, b) == Len(a) <= Len(b) /\ SubSeq(b, 1, Len(a)) = a

ExpectedOps(times) ==
    <<"H">> \o Repeat(<<"Oracle", "Diffusion">>, times) \o <<"measure">>

\* floor(pi/4 * sqrt(2^w)), at least 1:  k <= pi/4 sqrt(N)  iff  16 k^2 <= pi^2 N
OptimalIterations(w) ==
    LET ks == {k \in 0 .. Dim(w) : 16 * k * k * 10000 <= 98696 * Dim(w)}
        best == CHOOSE k \in ks : \A j \in ks : j <= k
    IN  IF best < 1 THEN 1 ELSE best

\* ---------------------------------------------------------------------
\* properties
\* ---------------------------------------------------------------------

\* C1 (as stated): for n = 4 and one iteration, the final probability at
\* target_index exceeds 0.9 and at every other index is below 0.1.
TargetAboveNineTenths ==
    (FinalState /\ n = 4 /\ iterations = 1 /\ InRange) =>
        /\ 10 * Sq(target_index) > 9 * Scale
        /\ \A i \in DOMAIN state.amp : i # target_index => 10 * Sq(i) < Scale

\* C1 (amended): for n = 4 and one iteration, the final probability is
\* 121/256 at the index the oracle marks, which is target_index with its
\* four bits reversed, and 9/256 (below 0.1) at every other index.
OneIterationProbabilities ==
    (FinalState /\ n = 4 /\ iterations = 1 /\ InRange) =>
        /\ 256 * Sq(ReverseBits(target_index, n)) = 121 * Scale
        /\ \A i \in DOMAIN state.amp :
              i # ReverseBits(target_index, n) =>
                  (256 * Sq(i) = 9 * Scale /\ 10 * Sq(i) < Scale)

OneIterationWitness ==
    /\ pc = "done"
    /\ n = 4
    /\ iterations = 1
    /\ target_index = 5
    /\ result = 10

\* C2: whenever quantum_search returns the single most probable outcome
\* of the final state (the amplitude the oracle marked, amplified), the
\* returned index is target_index.
ReturnsMarkedTarget ==
    (pc = "done" /\ InRange /\ iterations >= 1
        /\ \A i \in DOMAIN state.amp : i # result => Sq(i) < Sq(result))
    => result = target_index

\* C3: the returned winner has the highest count and, among the outcomes
\* that share the highest count, the smallest index, whatever the order
\* of the counts mapping.
WinnerSmallestOfHighest ==
    pc = "done" =>
        \E j \in 1 .. Len(counts) :
            /\ ParseBin(counts[j][1]) = result
            /\ \A m \in 1 .. Len(counts) :
                  /\ counts[m][2] <= counts[j][2]
                  /\ counts[m][2] = counts[j][2] => result <= ParseBin(counts[m][1])

\* C4: with n >= 1 and target_index outside [0, 2^n) the call fails with
\* IndexOutOfRange before an oracle is built, and returns no index.
IndexOutOfRangeRaised ==
    (n >= 1 /\ ~InRange) =>
        /\ oracle = <<>>
        /\ result = NoResult
        /\ pc # "done"
        /\ pc = "failed" => err = "IndexOutOfRange"

\* C5: with n < 1 the call fails with InvalidDimension as its first step,
\* before a circuit or state is initialised; no index is returned.
InvalidDimensionRaised ==
    (n < 1 /\ pc # "start") =>
        /\ pc = "failed"
        /\ err = "InvalidDimension"
        /\ qc = <<>>
        /\ state = NoState
        /\ result = NoResult

\* C6: when the caller passes no iterations, the number of oracle and
\* diffusion repetitions is floor(pi/4 sqrt(2^n)), at least 1.
DefaultIterationCount ==
    (FinalState /\ ~supplied) =>
        /\ CountName(applied, "Oracle") = OptimalIterations(n)
        /\ CountName(applied, "Diffusion") = OptimalIterations(n)

NormPreserved ==
    pc \in {"running", "measured", "done"} =>
        /\ DOMAIN state.amp = 0 .. (Dim(n) - 1)
        /\ Sum(Squares(state)) = Scale

NormWitness ==
    /\ pc = "running"
    /\ n = 3
    /\ target_index = 6
    /\ applied = <<"H", "Oracle", "Diffusion", "Oracle">>

\* C9: the instructions executed are the initial Hadamards, then
\* iterations times (oracle, diffusion) with the one oracle built for the
\* target, then the measurement, and nothing after it.
OperationOrder ==
    /\ IsPrefix(applied, ExpectedOps(iterations))
    /\ FinalState => applied = ExpectedOps(iterations)
    /\ \A j \in 1 .. Len(qc) :
          /\ qc[j].name = "Oracle" => qc[j].gates = oracle
          /\ qc[j].name = "Diffusion" => qc[j].gates = diffusion

OperationOrderWitness ==
    /\ pc = "done"
    /\ iterations = 2
    /\ applied = <<"H", "Oracle", "Diffusion", "Oracle", "Diffusion", "measure">>

\* the amplitudes new / sqrt(2)^knew equal sign * (2 mu - old / sqrt(2)^kold),
\* mu the mean of old
ReflectedAboutMean(old, new, sign) ==
    LET N == Cardinality(DOMAIN old.amp)
        total == Sum(old.amp)
    IN  /\ DOMAIN new.amp = DOMAIN old.amp
        /\ (new.k - old.k) % 2 = 0
        /\ \A i \in DOMAIN old.amp :
              IF new.k >= old.k
              THEN N * new.amp[i]
                     = sign * (2 * total - N * old.amp[i]) * 2 ^ ((new.k - old.k) \div 2)
              ELSE N * new.amp[i] * 2 ^ ((old.k - new.k) \div 2)
                     = sign * (2 * total - N * old.amp[i])

DiffusionStep == pc = "running" /\ ip <= Len(qc) /\ qc[ip].name = "Diffusion"

\* C10 (as stated): one diffusion replaces every amplitude a_i by
\* 2 mu - a_i, mu the mean of the amplitudes before the diffusion.
DiffusionReflects ==
    [][DiffusionStep => ReflectedAboutMean(state, state', 1)]_vars

\* C10 (amended): one diffusion replaces every amplitude a_i by
\* a_i - 2 mu = -(2 mu - a_i): the reflection about the mean, negated.
DiffusionNegatedReflection ==
    [][DiffusionStep => ReflectedAboutMean(state, state', -1)]_vars

DiffusionWitness ==
    /\ applied = <<"Diffusion">>
    /\ n = 2
    /\ state.k = 2
    /\ state.amp[0] = -1
    /\ state.amp[1] = 1
    /\ state.amp[2] = -1
    /\ state.amp[3] = -1

====
